---- MODULE Spec2Model ----
(***************************************************************************)
(* Countree (src/countree.py): taxonomy lookup (get_lineage), the pruned   *)
(* topology builder (get_topology), per-node assignment (process_node),    *)
(* bottom-up aggregation (accumulate_values), export (tree_to_dict) and    *)
(* the threshold classifier (get_threshold_indices).                       *)
(*                                                                         *)
(* Numbers: counts are Python floats holding small non-negative integers,  *)
(* on which float addition is exact; a ratio count / whole_count is kept   *)
(* as a reduced fraction <<num, den>>.  Rendering state (styles, faces,    *)
(* the display label) is not part of the model.                            *)
(***************************************************************************)
EXTENDS Integers, Sequences, FiniteSets, TLC

\* ---------------------------------------------------------------- bounds
MaxTaxid == 4
MaxInputs == 3
MaxCount == 1
MaxLen == 8
MaxVal == 2

\* ------------------------------------------------------------- constants
RootTaxid == 1
MaxThresholds == 7

None == 0 - 1

VARIABLES
    nodes,          \* nodes table: taxid -> parent taxid (None: no row)
    names,          \* taxids that have a 'scientific name' row
    keys,           \* data.keys(), in dict (file) order
    data,           \* data: taxid -> [count, whole_count, value]
    info_type,      \* "count" or "ratio"
    pc,             \* position in create_tree / get_topology
    valid_taxids,   \* create_tree: valid_taxids
    common_lineage, \* get_topology: common_lineage
    tree,           \* the ete3 tree: sequence of [name, parent]; node 0 is Tree()
    ti,             \* get_topology: index of the outer loop (for taxid in taxids)
    ai,             \* get_topology: index of the inner loop (for ancestor in lineage)
    current_node,   \* get_topology: current_node
    feat,           \* features attached to the nodes by process_node / accumulate_values
    sorted_values,  \* get_threshold_indices: sorted_values
    th_i,           \* get_threshold_indices: loop index i (0-based)
    cumulative,     \* get_threshold_indices: cumulative
    thresholds,     \* get_threshold_indices: thresholds
    tpc,            \* get_threshold_indices: "idle", "loop" or "done"
    exported,       \* main: tree_data, the nested record tree_to_dict(tree) returns
    exit_status,    \* main: the exit status of the process (None while it runs)
    dump_nodes,     \* process_taxdump: taxids of the rows of nodes.dmp
    dump_names,     \* process_taxdump: taxids of the rows of names.dmp
    st_tables,      \* taxa.sqlite on disk: the tables that exist
    st_nodes,       \* taxa.sqlite on disk: committed rows of nodes
    st_names,       \* taxa.sqlite on disk: committed rows of names
    tx_nodes,       \* process_taxdump: rows of nodes as the open connection sees them
    tx_names,       \* process_taxdump: rows of names as the open connection sees them
    dpc,            \* position in process_taxdump
    lin_taxid,      \* get_lineage: taxid
    lin_lineage,    \* get_lineage: lineage, in append order (leaf first)
    lpc             \* get_lineage: "idle", "loop" or "done"

topo_vars == <<nodes, names, keys, data, info_type, pc, valid_taxids,
               common_lineage, tree, ti, ai, current_node, feat>>
thr_vars == <<sorted_values, th_i, cumulative, thresholds, tpc>>
main_vars == <<exported, exit_status>>
dump_vars == <<dump_nodes, dump_names, st_tables, st_nodes, st_names,
               tx_nodes, tx_names, dpc>>
lin_vars == <<lin_taxid, lin_lineage, lpc>>
vars == <<nodes, names, keys, data, info_type, pc, valid_taxids,
          common_lineage, tree, ti, ai, current_node, feat,
          sorted_values, th_i, cumulative, thresholds, tpc,
          exported, exit_status,
          dump_nodes, dump_names, st_tables, st_nodes, st_names,
          tx_nodes, tx_names, dpc,
          lin_taxid, lin_lineage, lpc>>

\* ------------------------------------------------------------ arithmetic
RECURSIVE GCD(_, _)
GCD(a, b) == IF b = 0 THEN a ELSE GCD(b, a % b)

Zero == <<0, 1>>
\* what evaluating a / 0 gives: ZeroDivisionError
DivError == <<0, 0>>

\* Python's a / b on floats holding the non-negative integers a and b
TrueDiv(a, b) ==
    IF b = 0 THEN DivError
    ELSE IF a = 0 THEN Zero
    ELSE <<a \div GCD(a, b), b \div GCD(a, b)>>

\* Python's x + y on two ratios
FracAdd(x, y) ==
    IF x = DivError \/ y = DivError THEN DivError
    ELSE TrueDiv(x[1] * y[2] + y[1] * x[2], x[2] * y[2])

Range(s) == {s[i] : i \in 1..Len(s)}

SetMin(S) == CHOOSE x \in S : \A y \in S : x <= y

\* ------------------------------------------------- CustomNCBITaxa lookups
\* cursor.fetchone() of "SELECT parent FROM nodes WHERE taxid = ?"
ParentRow(tbl, taxid) ==
    IF taxid \in DOMAIN tbl THEN tbl[taxid] ELSE None

\* get_lineage without the final [::-1]: leaf-first
RECURSIVE get_lineage_norev(_, _)
get_lineage_norev(tbl, taxid) ==
    IF taxid = RootTaxid THEN <<>>
    ELSE IF ParentRow(tbl, taxid) = None THEN <<>>
    ELSE <<taxid>> \o get_lineage_norev(tbl, ParentRow(tbl, taxid))

\* get_lineage: climb the parent links until taxid 1 or a missing row, then
\* reverse, so the result is root-first and excludes taxid 1
RECURSIVE get_lineage(_, _)
get_lineage(tbl, taxid) ==
    IF taxid = RootTaxid THEN <<>>
    ELSE IF ParentRow(tbl, taxid) = None THEN <<>>
    ELSE Append(get_lineage(tbl, ParentRow(tbl, taxid)), taxid)

\* bool(get_taxid_translator([taxid]))
HasName(nm, taxid) == taxid \in nm

\* ------------------------------------------------------------- the tree
\* node.children of node n, in insertion order (add_child appends)
Children(tr, n) == SelectSeq([i \in 1..Len(tr) |-> i], LAMBDA i : tr[i].parent = n)

ChildSet(tr, n) == {i \in 1..Len(tr) : tr[i].parent = n}

\* a lookup that examines only the last child added under cur
FindChild_last(tr, cur, ancestor) ==
    IF ChildSet(tr, cur) = {} THEN None
    ELSE IF tr[CHOOSE i \in ChildSet(tr, cur) : \A j \in ChildSet(tr, cur) : j <= i].name = ancestor
         THEN CHOOSE i \in ChildSet(tr, cur) : \A j \in ChildSet(tr, cur) : j <= i
         ELSE None

\* a lookup that never finds a child
FindChild_never(tr, cur, ancestor) == None

\* next((child for child in current_node.children if child.name == str(ancestor)), None)
FindChild(tr, cur, ancestor) ==
    IF {i \in ChildSet(tr, cur) : tr[i].name = ancestor} = {} THEN None
    ELSE SetMin({i \in ChildSet(tr, cur) : tr[i].name = ancestor})

\* current_node.add_child(name=str(ancestor))
add_child(tr, cur, ancestor) == Append(tr, [name |-> ancestor, parent |-> cur])

\* a membership test that prunes nothing
InCommon_never(ancestor, common) == FALSE

\* ancestor in common_lineage
InCommon(ancestor, common) == ancestor \in common

\* get_topology, first loop: common_lineage after taxids[i..] given acc
RECURSIVE CommonFrom(_, _, _, _)
CommonFrom(tbl, taxids, i, acc) ==
    IF i > Len(taxids) THEN acc
    ELSE CommonFrom(tbl, taxids, i + 1, acc \cap Range(get_lineage(tbl, taxids[i])))

\* a first loop that never intersects: the first taxid's lineage
ComputeCommon_first(tbl, taxids) ==
    IF taxids = <<>> THEN {} ELSE Range(get_lineage(tbl, taxids[1]))

ComputeCommon(tbl, taxids) ==
    IF taxids = <<>> THEN {}
    ELSE CommonFrom(tbl, taxids, 2, Range(get_lineage(tbl, taxids[1])))

\* one pass of the inner loop body for one ancestor: the tree and current_node
\* after it (no scientific-name failure)
InsertOne(tr, cur, ancestor, common) ==
    IF InCommon(ancestor, common) THEN [tree |-> tr, cur |-> cur]
    ELSE IF FindChild(tr, cur, ancestor) = None
         THEN [tree |-> add_child(tr, cur, ancestor), cur |-> Len(tr) + 1]
         ELSE [tree |-> tr, cur |-> FindChild(tr, cur, ancestor)]

RECURSIVE InsertLineage(_, _, _, _, _)
InsertLineage(tr, cur, lineage, i, common) ==
    IF i > Len(lineage) THEN tr
    ELSE InsertLineage(InsertOne(tr, cur, lineage[i], common).tree,
                       InsertOne(tr, cur, lineage[i], common).cur,
                       lineage, i + 1, common)

RECURSIVE BuildFrom(_, _, _, _, _)
BuildFrom(tbl, tr, taxids, i, common) ==
    IF i > Len(taxids) THEN tr
    ELSE BuildFrom(tbl, InsertLineage(tr, 0, get_lineage(tbl, taxids[i]), 1, common),
                   taxids, i + 1, common)

\* get_topology as a function of its argument, when no lookup fails
get_topology(tbl, taxids) == BuildFrom(tbl, <<>>, taxids, 1, ComputeCommon(tbl, taxids))

\* ------------------------------------------------------------ read_data
\* the record read_data stores for one line "taxid<TAB>count<TAB>whole_count"
ReadRecord(info, count, whole) ==
    IF info = "count"
    THEN [count |-> count, whole_count |-> None, value |-> TrueDiv(count, 1)]
    ELSE [count |-> count, whole_count |-> whole,
          value |-> IF whole # 0 THEN TrueDiv(count, whole) ELSE Zero]

\* --------------------------------------------------------- process_node
\* int(node.name), 0 for the unnamed Tree() root
NodeTaxid(tr, n) == IF n = 0 THEN 0 ELSE tr[n].name

\* data.get(taxid, {'count': 0, 'value': 0}), with setdefault('whole_count', 0)
NodeData(d, info, taxid) ==
    IF taxid \in DOMAIN d THEN d[taxid]
    ELSE [count |-> 0, whole_count |-> IF info = "ratio" THEN 0 ELSE None, value |-> Zero]

\* the features process_node attaches to node n
process_node(tr, d, info, n) ==
    [count |-> NodeData(d, info, NodeTaxid(tr, n)).count,
     value |-> NodeData(d, info, NodeTaxid(tr, n)).value,
     whole_count |-> NodeData(d, info, NodeTaxid(tr, n)).whole_count,
     has_cum |-> FALSE,
     cumulative_count |-> 0,
     cumulative_value |-> Zero,
     cumulative_whole_count |-> 0]

\* ------------------------------------------------------ accumulate_values
RECURSIVE AccCount(_, _, _), SumCount(_, _, _, _)
\* total_count started at 0 instead of node.count
AccCount_noown(tr, f, n) ==
    IF Children(tr, n) = <<>> THEN f[n].count
    ELSE SumCount(tr, f, Children(tr, n), 1)

\* total_count started at the stored cumulative_count when the node has one
AccCount_stored(tr, f, n) ==
    IF Children(tr, n) = <<>> THEN f[n].count
    ELSE (IF f[n].has_cum THEN f[n].cumulative_count ELSE f[n].count)
             + SumCount(tr, f, Children(tr, n), 1)

\* accumulate_values(node)[0]: total_count, or node.count for a leaf
AccCount(tr, f, n) ==
    IF Children(tr, n) = <<>> THEN f[n].count
    ELSE f[n].count + SumCount(tr, f, Children(tr, n), 1)
SumCount(tr, f, kids, i) ==
    IF i > Len(kids) THEN 0
    ELSE AccCount(tr, f, kids[i]) + SumCount(tr, f, kids, i + 1)

RECURSIVE AccWhole(_, _, _), SumWhole(_, _, _, _)
\* ratio mode, accumulate_values(node)[1]: total_whole_count, or node.whole_count
AccWhole(tr, f, n) ==
    IF Children(tr, n) = <<>> THEN f[n].whole_count
    ELSE f[n].whole_count + SumWhole(tr, f, Children(tr, n), 1)
SumWhole(tr, f, kids, i) ==
    IF i > Len(kids) THEN 0
    ELSE AccWhole(tr, f, kids[i]) + SumWhole(tr, f, kids, i + 1)

\* line 187 without its zero test
RatioValue_noguard(total_count, total_whole_count) == TrueDiv(total_count, total_whole_count)

\* ratio mode, line 187: total_count / total_whole_count if total_whole_count != 0 else 0
RatioValue(total_count, total_whole_count) ==
    IF total_whole_count # 0 THEN TrueDiv(total_count, total_whole_count) ELSE Zero

RECURSIVE AccValue(_, _, _, _), SumValue(_, _, _, _, _)
\* the last component accumulate_values(node) returns: total_value, or node.value
AccValue(tr, f, info, n) ==
    IF Children(tr, n) = <<>> THEN f[n].value
    ELSE IF info = "count"
         THEN FracAdd(f[n].value, SumValue(tr, f, info, Children(tr, n), 1))
         ELSE RatioValue(AccCount(tr, f, n), AccWhole(tr, f, n))
SumValue(tr, f, info, kids, i) ==
    IF i > Len(kids) THEN Zero
    ELSE FracAdd(AccValue(tr, f, info, kids[i]), SumValue(tr, f, info, kids, i + 1))

\* the features of every node after accumulate_values(tree, info_type): only
\* nodes with children get cumulative_* features
accumulate_values(tr, f, info) ==
    [n \in DOMAIN f |->
        IF Children(tr, n) = <<>> THEN f[n]
        ELSE [f[n] EXCEPT !.has_cum = TRUE,
                          !.cumulative_count = AccCount(tr, f, n),
                          !.cumulative_value = AccValue(tr, f, info, n),
                          !.cumulative_whole_count =
                              IF info = "ratio" THEN AccWhole(tr, f, n) ELSE 0]]

\* ------------------------------------------------------------ tree_to_dict
\* the record tree_to_dict builds for node n (children are Children(tr, n));
\* has_cwc: "cumulative_whole_count" is a key of the record
tree_to_dict(f, info, n) ==
    [count |-> f[n].count,
     value |-> f[n].value,
     cumulative_count |-> IF f[n].has_cum THEN f[n].cumulative_count ELSE f[n].count,
     cumulative_value |-> IF f[n].has_cum THEN f[n].cumulative_value ELSE f[n].value,
     has_whole |-> info = "ratio",
     whole_count |-> f[n].whole_count,
     has_cwc |-> f[n].has_cum /\ info = "ratio",
     cumulative_whole_count |-> f[n].cumulative_whole_count]

\* get_rank: the rank column of the taxid's nodes row, as a symbol
get_rank(tbl, taxid) ==
    IF ParentRow(tbl, taxid) # None THEN <<"rank", taxid>> ELSE <<"Unknown">>

\* get_taxid_translator([taxid]).get(taxid, "Unknown"): the scientific name, as a symbol
SciName(nm, taxid) == IF HasName(nm, taxid) THEN <<"name", taxid>> ELSE <<"Unknown">>

\* f"{count:.2f}": the count in hundredths
Fmt2(count) == count * 100

\* f"{value:.4f}": the ratio rounded to ten-thousandths
Fmt4(value) == (20000 * value[1] + value[2]) \div (2 * value[2])

\* node.name after process_node (line 250): the display label
NodeLabel(nm, tr, f, n) ==
    <<SciName(nm, NodeTaxid(tr, n)), NodeTaxid(tr, n), Fmt2(f[n].count), Fmt4(f[n].value)>>

\* getattr(node, "rank", ""): the feature get_topology attached on insertion
NodeRank(tbl, tr, n) == IF n = 0 THEN <<>> ELSE get_rank(tbl, tr[n].name)

\* getattr(node, "sci_name", "")
NodeSciName(nm, tr, n) == IF n = 0 THEN <<>> ELSE SciName(nm, tr[n].name)

\* a tree_to_dict that lists the children last-first
RECURSIVE tree_to_dict_rev(_, _, _, _, _, _)
tree_to_dict_rev(nm, tbl, tr, f, info, n) ==
    [name |-> NodeLabel(nm, tr, f, n),
     children |-> [i \in 1..Len(Children(tr, n)) |->
                      tree_to_dict_rev(nm, tbl, tr, f, info,
                          Children(tr, n)[Len(Children(tr, n)) + 1 - i])],
     rank |-> NodeRank(tbl, tr, n),
     sci_name |-> NodeSciName(nm, tr, n)] @@ tree_to_dict(f, info, n)

\* tree_to_dict(node) with its recursion: name, children in node.children
\* order, rank, sci_name, and the numeric fields
RECURSIVE tree_to_dict_rec(_, _, _, _, _, _)
tree_to_dict_rec(nm, tbl, tr, f, info, n) ==
    [name |-> NodeLabel(nm, tr, f, n),
     children |-> [i \in 1..Len(Children(tr, n)) |->
                      tree_to_dict_rec(nm, tbl, tr, f, info, Children(tr, n)[i])],
     rank |-> NodeRank(tbl, tr, n),
     sci_name |-> NodeSciName(nm, tr, n)] @@ tree_to_dict(f, info, n)

\* ------------------------------------------------- get_threshold_indices
RECURSIVE InsertDesc(_, _)
InsertDesc(s, x) ==
    IF s = <<>> THEN <<x>>
    ELSE IF x >= Head(s) THEN <<x>> \o s
    ELSE <<Head(s)>> \o InsertDesc(Tail(s), x)

\* sorted(data_values, reverse=True)
RECURSIVE SortDesc(_)
SortDesc(s) == IF s = <<>> THEN <<>> ELSE InsertDesc(SortDesc(Tail(s)), Head(s))

\* sum(sorted_values)
RECURSIVE SeqSum(_)
SeqSum(s) == IF s = <<>> THEN 0 ELSE Head(s) + SeqSum(Tail(s))

RECURSIVE Pow2(_)
Pow2(k) == IF k = 0 THEN 1 ELSE 2 * Pow2(k - 1)

\* a coverage check against the next level, 1 - 1/2**(k+1)
Covers_next(cum, total, k) == cum * Pow2(k + 1) >= total * (Pow2(k + 1) - 1)

\* cumulative >= total * (1 - 1/2**k); both sides scaled by 2**k, which is exact
\* in floating point for these magnitudes
Covers(cum, total, k) == cum * Pow2(k) >= total * (Pow2(k) - 1)

\* an append that records the value for two levels at once
append_threshold_twice(th, value) == Append(Append(th, value), value)

\* thresholds.append(value)
append_threshold(th, value) == Append(th, value)

\* a loop that never breaks
IsFull_never(th) == FALSE

\* a break that waits for one threshold more
IsFull_late(th) == Len(th) = MaxThresholds + 1

\* len(thresholds) == 7
IsFull(th) == Len(th) = MaxThresholds

\* ---------------------------------------------------------- initial states
\* nodes tables over taxids 1..MaxTaxid: taxid 1 is its own parent, every other
\* row points to a lower taxid (any acyclic taxonomy can be numbered so) or is
\* missing
Taxonomies ==
    {tbl \in [1..MaxTaxid -> {None} \cup (1..MaxTaxid)] :
        /\ tbl[RootTaxid] = RootTaxid
        /\ \A t \in 2..MaxTaxid : tbl[t] = None \/ tbl[t] < t}

NoRow(tbl) == {t \in DOMAIN tbl : tbl[t] = None}

NameSets == {(1..MaxTaxid) \ D : D \in {{}} \cup {{t} : t \in 2..MaxTaxid}}

\* duplicate-free sequences of 1..MaxInputs elements of D
KeySeqs(D) ==
    {s \in UNION {[1..n -> D] : n \in 1..MaxInputs} :
        \A i, j \in DOMAIN s : i # j => s[i] # s[j]}

Ascending(s) == \A i, j \in DOMAIN s : i < j => s[i] < s[j]

MainIdle ==
    /\ exported = <<>>
    /\ exit_status = None

DumpIdle ==
    /\ dump_nodes = {}
    /\ dump_names = {}
    /\ st_tables = {}
    /\ st_nodes = {}
    /\ st_names = {}
    /\ tx_nodes = {}
    /\ tx_names = {}
    /\ dpc = "idle"

LinIdle ==
    /\ lin_taxid = 0
    /\ lin_lineage = <<>>
    /\ lpc = "idle"

ThrIdle ==
    /\ sorted_values = <<>>
    /\ th_i = 0
    /\ cumulative = 0
    /\ thresholds = <<>>
    /\ tpc = "idle"

PipelineStart ==
    /\ pc = "start"
    /\ valid_taxids = <<>>
    /\ common_lineage = {}
    /\ tree = <<>>
    /\ ti = 0
    /\ ai = 0
    /\ current_node = 0
    /\ feat = <<>>

\* create_tree is entered with a taxonomy store holding at most one defective
\* taxid (no nodes row, or no scientific name) and a non-empty data dict whose
\* keys come in any order; every observation is "taxid 1 1" in count mode
Init ==
    /\ nodes \in Taxonomies
    /\ names \in NameSets
    /\ Cardinality(NoRow(nodes)) + Cardinality((1..MaxTaxid) \ names) <= 1
    /\ keys \in KeySeqs(1..MaxTaxid)
    /\ info_type = "count"
    /\ data = [k \in Range(keys) |-> ReadRecord("count", 1, 1)]
    /\ PipelineStart
    /\ ThrIdle
    /\ MainIdle
    /\ DumpIdle
    /\ LinIdle

ObsSet(info) ==
    IF info = "count" THEN {ReadRecord(info, c, 0) : c \in 0..MaxCount}
    ELSE {ReadRecord(info, c, w) : c \in 0..MaxCount, w \in {0, MaxCount + 1}}

\* create_tree is entered with a complete taxonomy store and any observations
\* on taxids 0 and 2..MaxTaxid (taxid 0 has no record in the store)
InitAgg ==
    /\ nodes \in {tbl \in Taxonomies : NoRow(tbl) = {}}
    /\ names = 1..MaxTaxid
    /\ keys \in {s \in KeySeqs({0} \cup (2..MaxTaxid)) : Ascending(s)}
    /\ info_type \in {"count", "ratio"}
    /\ data \in [Range(keys) -> ObsSet(info_type)]
    /\ PipelineStart
    /\ ThrIdle
    /\ MainIdle
    /\ DumpIdle
    /\ LinIdle

ThrValues == (0 - 1)..MaxVal

\* get_threshold_indices is entered with any sequence of up to MaxLen values
InitThr ==
    /\ nodes = [t \in 1..MaxTaxid |-> RootTaxid]
    /\ names = 1..MaxTaxid
    /\ keys = <<>>
    /\ info_type = "count"
    /\ data = <<>>
    /\ PipelineStart
    /\ \E n \in 0..MaxLen : \E dv \in [1..n -> ThrValues] :
          sorted_values = SortDesc(dv)
    /\ th_i = 0
    /\ cumulative = 0
    /\ thresholds = <<>>
    /\ tpc = "loop"
    /\ MainIdle
    /\ DumpIdle
    /\ LinIdle

\* the reference dump: the taxids of the lines of nodes.dmp and of names.dmp,
\* each holding at least the line of taxid 1
DumpContents == {D \in SUBSET (1..MaxTaxid) : RootTaxid \in D}

\* process_taxdump is entered for the first time: temp_taxdump/taxa.sqlite
\* does not exist
InitDump ==
    /\ nodes = [t \in 1..MaxTaxid |-> RootTaxid]
    /\ names = 1..MaxTaxid
    /\ keys = <<>>
    /\ info_type = "count"
    /\ data = <<>>
    /\ PipelineStart
    /\ ThrIdle
    /\ MainIdle
    /\ LinIdle
    /\ dump_nodes \in DumpContents
    /\ dump_names \in DumpContents
    /\ st_tables = {}
    /\ st_nodes = {}
    /\ st_names = {}
    /\ tx_nodes = {}
    /\ tx_names = {}
    /\ dpc = "idle"

\* any content of the nodes table: taxid is the primary key, so each taxid has
\* at most one parent, but the parent links need not be acyclic
AnyNodesTables ==
    {tbl \in [1..MaxTaxid -> {None} \cup (1..MaxTaxid)] : tbl[RootTaxid] = RootTaxid}

\* get_lineage(taxid) is entered, lineage = []
InitLin ==
    /\ nodes \in AnyNodesTables
    /\ names = 1..MaxTaxid
    /\ keys = <<>>
    /\ info_type = "count"
    /\ data = <<>>
    /\ PipelineStart
    /\ ThrIdle
    /\ MainIdle
    /\ DumpIdle
    /\ lin_taxid \in 0..MaxTaxid
    /\ lin_lineage = <<>>
    /\ lpc = "loop"

\* ---------------------------------------------------------------- actions
\* [taxid for taxid in data.keys() if ncbi.get_taxid_translator([taxid])]
ValidTaxids(ks, nm) == SelectSeq(ks, LAMBDA k : HasName(nm, k))

\* create_tree: no valid taxid, raise ValueError
CreateTreeNoValid ==
    /\ pc = "start"
    /\ ValidTaxids(keys, names) = <<>>
    /\ pc' = "error"
    /\ UNCHANGED <<nodes, names, keys, data, info_type, valid_taxids, common_lineage,
                   tree, ti, ai, current_node, feat>>
    /\ UNCHANGED thr_vars
    /\ UNCHANGED <<main_vars, dump_vars, lin_vars>>

\* create_tree: filter the taxids and call get_topology
CreateTreeFilter ==
    /\ pc = "start"
    /\ ValidTaxids(keys, names) # <<>>
    /\ valid_taxids' = ValidTaxids(keys, names)
    /\ pc' = "common"
    /\ UNCHANGED <<nodes, names, keys, data, info_type, common_lineage,
                   tree, ti, ai, current_node, feat>>
    /\ UNCHANGED thr_vars
    /\ UNCHANGED <<main_vars, dump_vars, lin_vars>>

\* get_topology: the first loop, then tree = Tree()
GetCommon ==
    /\ pc = "common"
    /\ common_lineage' = ComputeCommon(nodes, valid_taxids)
    /\ tree' = <<>>
    /\ ti' = 1
    /\ ai' = 0
    /\ pc' = "build"
    /\ UNCHANGED <<nodes, names, keys, data, info_type, valid_taxids, current_node, feat>>
    /\ UNCHANGED thr_vars
    /\ UNCHANGED <<main_vars, dump_vars, lin_vars>>

CurLineage == get_lineage(nodes, valid_taxids[ti])

\* get_topology: head of the second loop: lineage = ..., current_node = tree
NextTaxid ==
    /\ pc = "build"
    /\ ai = 0
    /\ ti <= Len(valid_taxids)
    /\ current_node' = 0
    /\ IF CurLineage = <<>>
       THEN ti' = ti + 1 /\ ai' = 0
       ELSE ti' = ti /\ ai' = 1
    /\ UNCHANGED <<nodes, names, keys, data, info_type, pc, valid_taxids,
                   common_lineage, tree, feat>>
    /\ UNCHANGED thr_vars
    /\ UNCHANGED <<main_vars, dump_vars, lin_vars>>

\* the inner loop moves to the next ancestor, or the outer loop to the next taxid
Advance ==
    IF ai = Len(CurLineage)
    THEN ti' = ti + 1 /\ ai' = 0
    ELSE ti' = ti /\ ai' = ai + 1

InLoop == pc = "build" /\ ai >= 1

\* inner loop body: the ancestor is in common_lineage, nothing happens
SkipCommon ==
    /\ InLoop
    /\ InCommon(CurLineage[ai], common_lineage)
    /\ Advance
    /\ UNCHANGED <<nodes, names, keys, data, info_type, pc, valid_taxids,
                   common_lineage, tree, current_node, feat>>
    /\ UNCHANGED thr_vars
    /\ UNCHANGED <<main_vars, dump_vars, lin_vars>>

\* inner loop body: a child of that name exists, descend into it
ReuseChild ==
    /\ InLoop
    /\ ~InCommon(CurLineage[ai], common_lineage)
    /\ FindChild(tree, current_node, CurLineage[ai]) # None
    /\ current_node' = InsertOne(tree, current_node, CurLineage[ai], common_lineage).cur
    /\ tree' = InsertOne(tree, current_node, CurLineage[ai], common_lineage).tree
    /\ Advance
    /\ UNCHANGED <<nodes, names, keys, data, info_type, pc, valid_taxids,
                   common_lineage, feat>>
    /\ UNCHANGED thr_vars
    /\ UNCHANGED <<main_vars, dump_vars, lin_vars>>

\* inner loop body: no such child, add one and descend into it
AddChild ==
    /\ InLoop
    /\ ~InCommon(CurLineage[ai], common_lineage)
    /\ FindChild(tree, current_node, CurLineage[ai]) = None
    /\ HasName(names, CurLineage[ai])
    /\ current_node' = InsertOne(tree, current_node, CurLineage[ai], common_lineage).cur
    /\ tree' = InsertOne(tree, current_node, CurLineage[ai], common_lineage).tree
    /\ Advance
    /\ UNCHANGED <<nodes, names, keys, data, info_type, pc, valid_taxids,
                   common_lineage, feat>>
    /\ UNCHANGED thr_vars
    /\ UNCHANGED <<main_vars, dump_vars, lin_vars>>

\* inner loop body: the child is added, then get_taxid_translator([ancestor])[ancestor]
\* raises KeyError because the ancestor has no scientific name
AddChildKeyError ==
    /\ InLoop
    /\ ~InCommon(CurLineage[ai], common_lineage)
    /\ FindChild(tree, current_node, CurLineage[ai]) = None
    /\ ~HasName(names, CurLineage[ai])
    /\ current_node' = Len(tree) + 1
    /\ tree' = add_child(tree, current_node, CurLineage[ai])
    /\ pc' = "error"
    /\ UNCHANGED <<nodes, names, keys, data, info_type, valid_taxids,
                   common_lineage, ti, ai, feat>>
    /\ UNCHANGED thr_vars
    /\ UNCHANGED <<main_vars, dump_vars, lin_vars>>

\* get_topology: return tree
ReturnTree ==
    /\ pc = "build"
    /\ ai = 0
    /\ ti > Len(valid_taxids)
    /\ pc' = "built"
    /\ UNCHANGED <<nodes, names, keys, data, info_type, valid_taxids,
                   common_lineage, tree, ti, ai, current_node, feat>>
    /\ UNCHANGED thr_vars
    /\ UNCHANGED <<main_vars, dump_vars, lin_vars>>

ProcessAll(tr, d, info) == [n \in 0..Len(tr) |-> process_node(tr, d, info, n)]

\* create_tree: for node in tree.traverse(): process_node(...)
ProcessNodes ==
    /\ pc = "built"
    /\ feat' = ProcessAll(tree, data, info_type)
    /\ pc' = "processed"
    /\ UNCHANGED <<nodes, names, keys, data, info_type, valid_taxids,
                   common_lineage, tree, ti, ai, current_node>>
    /\ UNCHANGED thr_vars
    /\ UNCHANGED <<main_vars, dump_vars, lin_vars>>

\* create_tree: accumulate_values(tree, info_type); return
Accumulate ==
    /\ pc = "processed"
    /\ feat' = accumulate_values(tree, feat, info_type)
    /\ pc' = "done"
    /\ UNCHANGED <<nodes, names, keys, data, info_type, valid_taxids,
                   common_lineage, tree, ti, ai, current_node>>
    /\ UNCHANGED thr_vars
    /\ UNCHANGED <<main_vars, dump_vars, lin_vars>>

\* create_tree from entry to return, when every taxon it adds has a scientific name
CreateTree ==
    /\ pc = "start"
    /\ ValidTaxids(keys, names) # <<>>
    /\ valid_taxids' = ValidTaxids(keys, names)
    /\ common_lineage' = ComputeCommon(nodes, valid_taxids')
    /\ tree' = get_topology(nodes, valid_taxids')
    /\ \A i \in 1..Len(tree') : HasName(names, tree'[i].name)
    /\ ti' = Len(valid_taxids') + 1
    /\ ai' = 0
    /\ current_node' = 0
    /\ feat' = accumulate_values(tree', ProcessAll(tree', data, info_type), info_type)
    /\ pc' = "done"
    /\ UNCHANGED <<nodes, names, keys, data, info_type>>
    /\ UNCHANGED thr_vars
    /\ UNCHANGED <<main_vars, dump_vars, lin_vars>>

\* get_threshold_indices: one iteration that appends the value
ThrAppend ==
    /\ tpc = "loop"
    /\ th_i < Len(sorted_values)
    /\ Covers(cumulative + sorted_values[th_i + 1], SeqSum(sorted_values), Len(thresholds))
    /\ cumulative' = cumulative + sorted_values[th_i + 1]
    /\ thresholds' = append_threshold(thresholds, sorted_values[th_i + 1])
    /\ th_i' = th_i + 1
    /\ tpc' = IF IsFull(thresholds') THEN "done" ELSE "loop"
    /\ UNCHANGED sorted_values
    /\ UNCHANGED topo_vars
    /\ UNCHANGED <<main_vars, dump_vars, lin_vars>>

\* get_threshold_indices: one iteration that appends nothing
ThrSkip ==
    /\ tpc = "loop"
    /\ th_i < Len(sorted_values)
    /\ ~Covers(cumulative + sorted_values[th_i + 1], SeqSum(sorted_values), Len(thresholds))
    /\ cumulative' = cumulative + sorted_values[th_i + 1]
    /\ th_i' = th_i + 1
    /\ tpc' = IF IsFull(thresholds) THEN "done" ELSE "loop"
    /\ UNCHANGED <<sorted_values, thresholds>>
    /\ UNCHANGED topo_vars
    /\ UNCHANGED <<main_vars, dump_vars, lin_vars>>

\* get_threshold_indices: the input is exhausted, return thresholds
ThrReturn ==
    /\ tpc = "loop"
    /\ th_i = Len(sorted_values)
    /\ tpc' = "done"
    /\ UNCHANGED <<sorted_values, th_i, cumulative, thresholds>>
    /\ UNCHANGED topo_vars
    /\ UNCHANGED <<main_vars, dump_vars, lin_vars>>

\* main: create_tree returned; create_html_output builds tree_data =
\* tree_to_dict(tree) and writes the page; main returns
MainHtml ==
    /\ pc = "done"
    /\ exported' = tree_to_dict_rec(names, nodes, tree, feat, info_type, 0)
    /\ exit_status' = 0
    /\ pc' = "exited"
    /\ UNCHANGED <<nodes, names, keys, data, info_type, valid_taxids,
                   common_lineage, tree, ti, ai, current_node, feat>>
    /\ UNCHANGED <<thr_vars, dump_vars, lin_vars>>

\* main: create_tree raised; except Exception prints "Error in main" and the
\* traceback, and main returns
MainCatch ==
    /\ pc = "error"
    /\ exit_status' = 0
    /\ pc' = "exited"
    /\ UNCHANGED <<nodes, names, keys, data, info_type, valid_taxids,
                   common_lineage, tree, ti, ai, current_node, feat>>
    /\ UNCHANGED exported
    /\ UNCHANGED <<thr_vars, dump_vars, lin_vars>>

Next ==
    \/ CreateTreeNoValid
    \/ CreateTreeFilter
    \/ GetCommon
    \/ NextTaxid
    \/ SkipCommon
    \/ ReuseChild
    \/ AddChild
    \/ AddChildKeyError
    \/ ReturnTree
    \/ ProcessNodes
    \/ Accumulate
    \/ MainHtml
    \/ MainCatch

NextAgg ==
    \/ CreateTreeNoValid
    \/ CreateTree
    \/ MainHtml
    \/ MainCatch

NextThr ==
    \/ ThrAppend
    \/ ThrSkip
    \/ ThrReturn

Spec == Init /\ [][Next]_vars
SpecAgg == InitAgg /\ [][NextAgg]_vars
\* accumulate_values(tree, info_type) called once more on the aggregated tree
AccumulateAgain ==
    /\ pc = "done"
    /\ feat' = accumulate_values(tree, feat, info_type)
    /\ pc' = "done_twice"
    /\ UNCHANGED <<nodes, names, keys, data, info_type, valid_taxids,
                   common_lineage, tree, ti, ai, current_node>>
    /\ UNCHANGED <<thr_vars, main_vars, dump_vars, lin_vars>>

NextTwice ==
    \/ CreateTreeNoValid
    \/ CreateTree
    \/ AccumulateAgain

SpecTwice == InitAgg /\ [][NextTwice]_vars

\* -------------------------------------------------------- process_taxdump
\* st_*: what the database file holds (committed); tx_*: the rows the open
\* connection sees, uncommitted inserts included
\* lines 79-88: both tables exist in the file, return db_path without building
DumpSkip ==
    /\ dpc = "idle"
    /\ {"nodes", "names"} \subseteq st_tables
    /\ dpc' = "skipped"
    /\ UNCHANGED <<dump_nodes, dump_names, st_tables, st_nodes, st_names, tx_nodes, tx_names>>
    /\ UNCHANGED <<topo_vars, thr_vars, main_vars, lin_vars>>

\* lines 79-97: no file or a table is missing; extract the dump and connect
DumpExtract ==
    /\ dpc = "idle"
    /\ ~({"nodes", "names"} \subseteq st_tables)
    /\ dpc' = "create_nodes"
    /\ UNCHANGED <<dump_nodes, dump_names, st_tables, st_nodes, st_names, tx_nodes, tx_names>>
    /\ UNCHANGED <<topo_vars, thr_vars, main_vars, lin_vars>>

\* lines 99-100: CREATE TABLE IF NOT EXISTS nodes, outside any transaction
DumpCreateNodes ==
    /\ dpc = "create_nodes"
    /\ st_tables' = st_tables \cup {"nodes"}
    /\ dpc' = "create_names"
    /\ UNCHANGED <<dump_nodes, dump_names, st_nodes, st_names, tx_nodes, tx_names>>
    /\ UNCHANGED <<topo_vars, thr_vars, main_vars, lin_vars>>

\* lines 101-102: CREATE TABLE IF NOT EXISTS names
DumpCreateNames ==
    /\ dpc = "create_names"
    /\ st_tables' = st_tables \cup {"names"}
    /\ dpc' = "delete"
    /\ UNCHANGED <<dump_nodes, dump_names, st_nodes, st_names, tx_nodes, tx_names>>
    /\ UNCHANGED <<topo_vars, thr_vars, main_vars, lin_vars>>

\* lines 104-107: DELETE FROM nodes, DELETE FROM names, conn.commit()
DumpDelete ==
    /\ dpc = "delete"
    /\ st_nodes' = {}
    /\ st_names' = {}
    /\ tx_nodes' = {}
    /\ tx_names' = {}
    /\ dpc' = "insert"
    /\ UNCHANGED <<dump_nodes, dump_names, st_tables>>
    /\ UNCHANGED <<topo_vars, thr_vars, main_vars, lin_vars>>

\* lines 109-115: INSERT INTO nodes for the next line of nodes.dmp
DumpInsertNode ==
    /\ dpc = "insert"
    /\ dump_nodes \ tx_nodes # {}
    /\ tx_nodes' = tx_nodes \cup {SetMin(dump_nodes \ tx_nodes)}
    /\ UNCHANGED <<dump_nodes, dump_names, st_tables, st_nodes, st_names, tx_names, dpc>>
    /\ UNCHANGED <<topo_vars, thr_vars, main_vars, lin_vars>>

\* lines 117-123: INSERT INTO names for the next line of names.dmp
DumpInsertName ==
    /\ dpc = "insert"
    /\ dump_nodes \ tx_nodes = {}
    /\ dump_names \ tx_names # {}
    /\ tx_names' = tx_names \cup {SetMin(dump_names \ tx_names)}
    /\ UNCHANGED <<dump_nodes, dump_names, st_tables, st_nodes, st_names, tx_nodes, dpc>>
    /\ UNCHANGED <<topo_vars, thr_vars, main_vars, lin_vars>>

\* lines 125-129: conn.commit(), close, return db_path
DumpCommit ==
    /\ dpc = "insert"
    /\ dump_nodes \ tx_nodes = {}
    /\ dump_names \ tx_names = {}
    /\ st_nodes' = tx_nodes
    /\ st_names' = tx_names
    /\ dpc' = "built"
    /\ UNCHANGED <<dump_nodes, dump_names, st_tables, tx_nodes, tx_names>>
    /\ UNCHANGED <<topo_vars, thr_vars, main_vars, lin_vars>>

\* the process is stopped during the build (lines 99-124, before the commit
\* of line 125): the open transaction is rolled back, the file keeps what
\* was committed
DumpInterrupt ==
    /\ dpc \in {"create_nodes", "create_names", "delete", "insert"}
    /\ tx_nodes' = st_nodes
    /\ tx_names' = st_names
    /\ dpc' = "idle"
    /\ UNCHANGED <<dump_nodes, dump_names, st_tables, st_nodes, st_names>>
    /\ UNCHANGED <<topo_vars, thr_vars, main_vars, lin_vars>>

\* the tool is run again with the same reference dump
DumpRerun ==
    /\ dpc \in {"skipped", "built"}
    /\ dpc' = "idle"
    /\ UNCHANGED <<dump_nodes, dump_names, st_tables, st_nodes, st_names, tx_nodes, tx_names>>
    /\ UNCHANGED <<topo_vars, thr_vars, main_vars, lin_vars>>

NextDump ==
    \/ DumpSkip
    \/ DumpExtract
    \/ DumpCreateNodes
    \/ DumpCreateNames
    \/ DumpDelete
    \/ DumpInsertNode
    \/ DumpInsertName
    \/ DumpCommit
    \/ DumpInterrupt
    \/ DumpRerun

SpecDump == InitDump /\ [][NextDump]_vars

\* ------------------------------------------------- get_lineage, stepwise
Reverse(s) == [i \in 1..Len(s) |-> s[Len(s) + 1 - i]]

\* a lineage longer than this holds some taxid twice
LineageCap == MaxTaxid + 1

\* line 32 fails: taxid == 1, return lineage[::-1]
LinReturn ==
    /\ lpc = "loop"
    /\ lin_taxid = RootTaxid
    /\ lin_lineage' = Reverse(lin_lineage)
    /\ lpc' = "done"
    /\ UNCHANGED lin_taxid
    /\ UNCHANGED <<topo_vars, thr_vars, main_vars, dump_vars>>

\* lines 33-36: no nodes row for taxid, break and return lineage[::-1]
LinBreak ==
    /\ lpc = "loop"
    /\ lin_taxid # RootTaxid
    /\ ParentRow(nodes, lin_taxid) = None
    /\ lin_lineage' = Reverse(lin_lineage)
    /\ lpc' = "done"
    /\ UNCHANGED lin_taxid
    /\ UNCHANGED <<topo_vars, thr_vars, main_vars, dump_vars>>

\* lines 33-38: lineage.append(taxid); taxid = parent[0]. The list is
\* recorded up to LineageCap entries; beyond that only taxid changes
LinClimb ==
    /\ lpc = "loop"
    /\ lin_taxid # RootTaxid
    /\ ParentRow(nodes, lin_taxid) # None
    /\ lin_lineage' = IF Len(lin_lineage) < LineageCap
                      THEN Append(lin_lineage, lin_taxid)
                      ELSE lin_lineage
    /\ lin_taxid' = ParentRow(nodes, lin_taxid)
    /\ UNCHANGED lpc
    /\ UNCHANGED <<topo_vars, thr_vars, main_vars, dump_vars>>

NextLin ==
    \/ LinReturn
    \/ LinBreak
    \/ LinClimb

\* the interpreter keeps executing the loop while it can
SpecLin == InitLin /\ [][NextLin]_vars /\ WF_vars(NextLin)

SpecThr == InitThr /\ [][NextThr]_vars

\* ================================================================ claims
\* every taxid has a nodes row and a scientific name
DefectFree == NoRow(nodes) = {} /\ names = 1..MaxTaxid

\* the strict ancestors of taxid t, read off the parent links of the nodes table
RECURSIVE AncSet(_, _)
AncSet(tbl, t) ==
    IF t = RootTaxid \/ ParentRow(tbl, t) = None THEN {}
    ELSE {ParentRow(tbl, t)} \cup AncSet(tbl, ParentRow(tbl, t))

Inputs == Range(valid_taxids)

\* the intersection of the lineages of all input taxids
CommonOf(tbl, taxids) ==
    {x \in 1..MaxTaxid : \A i \in 1..Len(taxids) : x \in Range(get_lineage(tbl, taxids[i]))}

NodeNames(tr) == {tr[i].name : i \in 1..Len(tr)}

\* taxids of the childless nodes below the synthetic root
LeafTaxids(tr) == {tr[i].name : i \in {j \in 1..Len(tr) : ChildSet(tr, j) = {}}}

RECURSIVE IsBelow(_, _, _)
\* node i is a proper descendant of node a
IsBelow(tr, i, a) ==
    IF i = 0 THEN FALSE
    ELSE tr[i].parent = a \/ IsBelow(tr, tr[i].parent, a)

\* C1: for every non-empty list of resolvable input taxids, the leaves of the
\* tree get_topology returns are exactly the input taxids that are not a strict
\* ancestor of another input taxid (a single input taxid included)
C1_LeavesAreInputs ==
    (pc = "built" /\ DefectFree /\ RootTaxid \notin Inputs) =>
        LeafTaxids(tree) =
            {a \in Inputs : ~\E b \in Inputs : a \in AncSet(nodes, b)}

\* C2: no taxon of the common lineage (the intersection of the lineages of all
\* input taxids) is a node of the tree, at any depth, after every insertion step
C2_CommonNeverInTree ==
    \A i \in 1..Len(tree) : tree[i].name \notin CommonOf(nodes, valid_taxids)

C2_Witness ==
    /\ pc = "built"
    /\ CommonOf(nodes, valid_taxids) # {}
    /\ Len(tree) >= 2

\* the record tree_to_dict exports for node n of the current tree
Exported(n) == tree_to_dict(feat, info_type, n)

RECURSIVE ChildCumSum(_, _)
\* sum of the exported cumulative_count of the nodes kids[1..]
ChildCumSum(kids, i) ==
    IF i > Len(kids) THEN 0
    ELSE Exported(kids[i]).cumulative_count + ChildCumSum(kids, i + 1)

\* C3: after create_tree, every node of the exported tree satisfies
\* cumulative_count = count + sum of the children's cumulative_count
C3_CumulativeCount ==
    pc = "done" =>
        \A n \in 0..Len(tree) :
            Exported(n).cumulative_count =
                Exported(n).count + ChildCumSum(Children(tree, n), 1)

C3_Witness ==
    /\ pc = "done"
    /\ \E n \in 1..Len(tree) :
          /\ ChildSet(tree, n) # {}
          /\ Exported(n).count > 0
          /\ Exported(n).cumulative_count > Exported(n).count

\* the whole count aggregated at node n: cumulative_whole_count where
\* accumulate_values stored it, the node's own whole_count at a leaf
CumWhole(n) ==
    IF Exported(n).has_cwc THEN Exported(n).cumulative_whole_count
    ELSE Exported(n).whole_count

RECURSIVE ChildValueSum(_, _)
ChildValueSum(kids, i) ==
    IF i > Len(kids) THEN Zero
    ELSE FracAdd(Exported(kids[i]).cumulative_value, ChildValueSum(kids, i + 1))

\* C4: in ratio mode every exported node has cumulative_value =
\* cumulative_count / cumulative_whole_count when the denominator is non-zero
\* and 0 when it is zero, and no division by zero is ever evaluated
C4_RatioValue ==
    (pc = "done" /\ info_type = "ratio") =>
        \A n \in 0..Len(tree) :
            /\ Exported(n).cumulative_value # DivError
            /\ Exported(n).value # DivError
            /\ Exported(n).cumulative_value =
                   IF CumWhole(n) # 0
                   THEN TrueDiv(Exported(n).cumulative_count, CumWhole(n))
                   ELSE Zero

C4_Witness ==
    /\ pc = "done"
    /\ info_type = "ratio"
    /\ \E n \in 0..Len(tree) :
          /\ ChildSet(tree, n) # {}
          /\ CumWhole(n) # 0
          /\ Exported(n).cumulative_value #
                 FracAdd(Exported(n).value, ChildValueSum(Children(tree, n), 1))
    /\ \E m \in 0..Len(tree) :
          /\ ChildSet(tree, m) # {}
          /\ CumWhole(m) = 0
          /\ Exported(m).cumulative_count > 0

\* C5: get_threshold_indices holds, and returns, at most 7 thresholds, each
\* less than or equal to the one before it
C5_ThresholdsBounded ==
    /\ Len(thresholds) <= MaxThresholds
    /\ \A i \in 2..Len(thresholds) : thresholds[i] <= thresholds[i - 1]

C5_Witness ==
    /\ tpc = "done"
    /\ Len(thresholds) = MaxThresholds
    /\ Len(sorted_values) > MaxThresholds
    /\ thresholds[1] > thresholds[2]
    /\ thresholds[2] > thresholds[MaxThresholds]

\* C6: with two input taxids A and B, A a strict ancestor of B, the tree holds
\* A as an internal node with exactly one child and B as a descendant of A
C6_AncestorInternal ==
    (pc = "built" /\ DefectFree /\ Len(valid_taxids) = 2) =>
        \A A, B \in Inputs :
            (A # RootTaxid /\ A \in AncSet(nodes, B)) =>
                \E a, b \in 1..Len(tree) :
                    /\ tree[a].name = A
                    /\ tree[b].name = B
                    /\ Cardinality(ChildSet(tree, a)) = 1
                    /\ IsBelow(tree, b, a)

\* C7: with exactly one resolvable input taxid the tree is the synthetic root
\* with exactly one child, a leaf for that taxid
C7_SingleLeaf ==
    (pc = "built" /\ DefectFree /\ Len(valid_taxids) = 1 /\ RootTaxid \notin Inputs) =>
        tree = <<[name |-> valid_taxids[1], parent |-> 0]>>

RECURSIVE CountSum(_, _)
\* sum of the observed counts of the taxids ks[i..]
CountSum(ks, i) ==
    IF i > Len(ks) THEN 0 ELSE data[ks[i]].count + CountSum(ks, i + 1)

\* every observation is on a child of taxon P, and P is a child of taxid 1
AllUnder(P) ==
    /\ nodes[P] = RootTaxid
    /\ \A k \in Range(keys) : k \in 2..MaxTaxid /\ nodes[k] = P

\* the nodes of the tree that carry taxid t
NodesNamed(t) == {i \in 1..Len(tree) : tree[i].name = t}

\* C8 as stated: when all input taxids are children of one taxon P whose parent
\* is taxid 1, the tree is synthetic root -> P -> {inputs} and
\* cumulative_count(P) is the sum of the inputs' counts
C8_Original ==
    pc = "done" =>
        \A P \in 2..MaxTaxid :
            (AllUnder(P) /\ Len(keys) >= 2) =>
                \E p \in NodesNamed(P) :
                    /\ tree[p].parent = 0
                    /\ {tree[i].name : i \in ChildSet(tree, p)} = Range(keys)
                    /\ Exported(p).cumulative_count = CountSum(keys, 1)

\* C8 amended: P belongs to the common lineage and is not a node of the tree;
\* with two or more inputs the tree is synthetic root -> {inputs}, every input a
\* leaf child of the root, and cumulative_count(root) is the sum of the counts
C8_Amended ==
    pc = "done" =>
        \A P \in 2..MaxTaxid :
            AllUnder(P) =>
                /\ NodesNamed(P) = {}
                /\ Len(keys) >= 2 =>
                       /\ Len(tree) = Len(keys)
                       /\ NodeNames(tree) = Range(keys)
                       /\ \A i \in 1..Len(tree) : tree[i].parent = 0
                       /\ Exported(0).cumulative_count = CountSum(keys, 1)

C8_Witness ==
    /\ pc = "done"
    /\ Len(keys) = 2
    /\ \E P \in 2..MaxTaxid : AllUnder(P)
    /\ \A k \in Range(keys) : data[k].count > 0
    /\ Exported(0).cumulative_count = CountSum(keys, 1)

\* the nodes below the synthetic root that are not an input taxid
NonInputNodes == {i \in 1..Len(tree) : tree[i].name \notin Inputs}

\* C9 as stated: every node other than the synthetic root that is not an input
\* taxid has at least two children
C9_Original ==
    (pc = "built" /\ DefectFree) =>
        \A i \in NonInputNodes : Cardinality(ChildSet(tree, i)) >= 2

\* C9 amended: every node other than the synthetic root that is not an input
\* taxid is a strict ancestor of an input taxid outside the common lineage, and
\* has at least one child
C9_Amended ==
    pc = "built" =>
        \A i \in NonInputNodes :
            /\ \E b \in Inputs : tree[i].name \in AncSet(nodes, b)
            /\ tree[i].name \notin CommonOf(nodes, valid_taxids)
            /\ ChildSet(tree, i) # {}

C9_Witness ==
    /\ pc = "built"
    /\ \E i \in NonInputNodes : Cardinality(ChildSet(tree, i)) = 1

\* the orderings of the sequence s
Orderings(s) ==
    {[i \in 1..Len(s) |-> s[f[i]]] :
        f \in {g \in [1..Len(s) -> 1..Len(s)] : \A i, j \in 1..Len(s) : i # j => g[i] # g[j]}}

RECURSIVE PathOf(_, _)
\* the taxids on the way from the synthetic root down to node i
PathOf(tr, i) == IF i = 0 THEN <<>> ELSE Append(PathOf(tr, tr[i].parent), tr[i].name)

\* a tree up to the order of children: how many nodes, and which root paths
Shape(tr) == [size |-> Len(tr), paths |-> {PathOf(tr, i) : i \in 1..Len(tr)}]

\* C10: for any two orderings of the same input taxids get_topology builds
\* trees of the same shape (same nodes, same parent for every node)
C10_OrderIndependent ==
    pc = "built" =>
        \A p \in Orderings(valid_taxids) : Shape(get_topology(nodes, p)) = Shape(tree)

C10_Witness ==
    /\ pc = "built"
    /\ Len(valid_taxids) >= 3
    /\ \E i \in 1..Len(tree) : Cardinality(ChildSet(tree, i)) >= 2
    /\ \E p \in Orderings(valid_taxids) : get_topology(nodes, p) # tree

\* C11: after process_node has run on every node, a node whose taxid has an
\* observation carries that observation's count and value, and every other
\* node, the synthetic root always among them, carries count 0 and value 0
\* (and whole_count 0 in ratio mode)
C11_NodeAssignment ==
    pc = "done" =>
        \A n \in 0..Len(tree) :
            IF n # 0 /\ tree[n].name \in DOMAIN data
            THEN /\ feat[n].count = data[tree[n].name].count
                 /\ feat[n].value = data[tree[n].name].value
            ELSE /\ feat[n].count = 0
                 /\ feat[n].value = Zero
                 /\ info_type = "ratio" => feat[n].whole_count = 0

\* the lookup resolves taxid k: a scientific-name row and a nodes row
Resolvable(k) == HasName(names, k) /\ ParentRow(nodes, k) # None

ResolvableKeys == SelectSeq(keys, Resolvable)

\* C12: an observation whose taxid has no scientific-name row or no nodes row
\* is excluded without aborting, and the tree and the aggregates are those
\* obtained from the resolvable observations alone
C12_UnresolvableExcluded ==
    (ResolvableKeys # <<>> /\ ResolvableKeys # keys) =>
        /\ pc # "error"
        /\ pc = "done" =>
               /\ tree = get_topology(nodes, ResolvableKeys)
               /\ feat = accumulate_values(tree,
                             ProcessAll(tree, [k \in Range(ResolvableKeys) |-> data[k]],
                                        info_type),
                             info_type)

\* C12, the part about the tree alone, for a run that does not abort
C12_TreeOfResolvable ==
    (ResolvableKeys # <<>> /\ ResolvableKeys # keys /\ pc = "done") =>
        tree = get_topology(nodes, ResolvableKeys)

\* the run ended after create_tree raised (no tree_data was ever built)
ExitedAfterFailure == pc = "exited" /\ exported = <<>>

\* C13: a core failure (no valid taxid, or a lookup failure in get_topology) is
\* raised before any tree or aggregation work completes, and the tool then
\* terminates with a non-zero exit status
C13_FailureExitsNonZero ==
    /\ pc = "error" => feat = <<>>
    /\ ExitedAfterFailure => (feat = <<>> /\ exit_status # 0)

RECURSIVE RecordMatches(_, _)
\* record rec is node n of the tree: same fields, same children in the same order
RecordMatches(rec, n) ==
    /\ rec.name = NodeLabel(names, tree, feat, n)
    /\ rec.rank = NodeRank(nodes, tree, n)
    /\ rec.sci_name = NodeSciName(names, tree, n)
    /\ rec.count = feat[n].count
    /\ rec.value = feat[n].value
    /\ rec.cumulative_count =
           IF feat[n].has_cum THEN feat[n].cumulative_count ELSE feat[n].count
    /\ rec.cumulative_value =
           IF feat[n].has_cum THEN feat[n].cumulative_value ELSE feat[n].value
    /\ Len(rec.children) = Len(Children(tree, n))
    /\ \A i \in 1..Len(rec.children) : RecordMatches(rec.children[i], Children(tree, n)[i])

\* C14: the nested record tree_to_dict returns has the shape of the tree (one
\* record per node, children in the tree's order) and every record carries its
\* node's name, rank, sci_name, count, value and cumulative values unchanged
C14_RecordRoundTrip ==
    [][(pc = "done" /\ pc' = "exited") =>
           /\ RecordMatches(exported', 0)
           /\ tree' = tree
           /\ feat' = feat]_vars

C14_Witness ==
    /\ pc = "exited"
    /\ exported # <<>>
    /\ Len(exported.children) >= 2
    /\ exported.children[1].count # exported.children[2].count
    /\ \E i \in 1..Len(exported.children) : exported.children[i].children # <<>>

\* C15: in every state of the construction the children of any one node (the
\* synthetic root included) have pairwise distinct taxids
C15_SiblingsDistinct ==
    \A i, j \in 1..Len(tree) :
        (i # j /\ tree[i].parent = tree[j].parent) => tree[i].name # tree[j].name

\* a second input has walked through a node inserted for an earlier one
C15_Witness ==
    /\ pc = "build"
    /\ ti >= 2
    /\ \E n \in 1..Len(tree) : Cardinality(ChildSet(tree, n)) >= 2

NonNegative(s) == \A i \in DOMAIN s : s[i] >= 0

\* sum of the first p entries
Prefix(s, p) == SeqSum(SubSeq(s, 1, p))

\* first position at which the running sum reaches (1 - 1/2^k) of the total
FirstReach(s, k) ==
    SetMin({p \in 1..Len(s) : Prefix(s, p) * Pow2(k) >= SeqSum(s) * (Pow2(k) - 1)})

\* C16 as stated: the k-th threshold returned is the value at the first
\* position where the running sum reaches (1 - 1/2^k) of the total
C16_Original ==
    (tpc = "done" /\ sorted_values # <<>> /\ NonNegative(sorted_values)) =>
        \A k \in 1..Len(thresholds) :
            thresholds[k] = sorted_values[FirstReach(sorted_values, k)]

RECURSIVE ThrPos(_, _)
\* position of the k-th threshold: the first position after that of threshold
\* k-1 where the running sum reaches (1 - 1/2^(k-1)) of the total; 0 if none
ThrPos(s, k) ==
    LET prev == IF k = 1 THEN 0 ELSE ThrPos(s, k - 1)
        cand == {p \in 1..Len(s) :
                    /\ p > prev
                    /\ Prefix(s, p) * Pow2(k - 1) >= SeqSum(s) * (Pow2(k - 1) - 1)}
    IN  IF (k > 1 /\ prev = 0) \/ cand = {} THEN 0 ELSE SetMin(cand)

\* C16, amended: the k-th threshold is the value at the first position after
\* the previous threshold's position where the running sum reaches
\* (1 - 1/2^(k-1)) of the total (0%, 50%, 75%, ...), and thresholds are
\* returned exactly for the k in 1..7 that have such a position
C16_Amended ==
    (tpc = "done" /\ sorted_values # <<>> /\ NonNegative(sorted_values)) =>
        /\ Len(thresholds) =
               Cardinality({k \in 1..MaxThresholds : ThrPos(sorted_values, k) # 0})
        /\ \A k \in 1..Len(thresholds) :
               thresholds[k] = sorted_values[ThrPos(sorted_values, k)]

\* a finished run whose first threshold is not the 50% value
C16_Witness ==
    /\ tpc = "done"
    /\ NonNegative(sorted_values)
    /\ Len(thresholds) >= 3
    /\ thresholds[1] # sorted_values[FirstReach(sorted_values, 1)]

\* the entry processed next passes the pending coverage check and the one after
PassesTwo ==
    /\ tpc = "loop"
    /\ th_i < Len(sorted_values)
    /\ Covers(cumulative + sorted_values[th_i + 1], SeqSum(sorted_values), Len(thresholds))
    /\ Covers(cumulative + sorted_values[th_i + 1], SeqSum(sorted_values), Len(thresholds) + 1)

\* C17 as stated: an entry that satisfies several coverage checks appends more
\* than one threshold in its step
C17_Original ==
    [][(PassesTwo /\ Len(thresholds) + 1 < MaxThresholds) =>
           Len(thresholds') >= Len(thresholds) + 2]_vars

\* C17, amended: every step of the loop appends at most one threshold, also for
\* an entry that satisfies several coverage checks, so the number of thresholds
\* never exceeds the number of entries processed
C17_Amended ==
    [][/\ Len(thresholds') <= Len(thresholds) + 1
       /\ Len(thresholds') <= th_i']_vars

\* tied values, and the entry just processed got one threshold although the
\* next coverage check holds for the same running sum
C17_Witness ==
    /\ tpc = "loop"
    /\ th_i >= 1
    /\ Len(thresholds) = th_i
    /\ \E i, j \in DOMAIN sorted_values : i # j /\ sorted_values[i] = sorted_values[j]
    /\ Covers(cumulative, SeqSum(sorted_values), Len(thresholds))

\* nodes with children
InternalNodes == {n \in 0..Len(tree) : Children(tree, n) # <<>>}

\* C18 as stated: a second accumulate_values makes cumulative_count at every
\* internal node with a non-zero subtree count larger than after the first run
C18_Original ==
    [][(pc = "done" /\ pc' = "done_twice") =>
           \A n \in InternalNodes :
               feat[n].cumulative_count # 0 =>
                   feat'[n].cumulative_count > feat[n].cumulative_count]_vars

\* C18, amended: a second accumulate_values on the aggregated tree recomputes
\* the same cumulative values from the nodes' own counts; no feature of any
\* node changes
C18_Amended ==
    [][(pc = "done" /\ pc' = "done_twice") => feat' = feat]_vars

C18_Witness ==
    /\ pc = "done_twice"
    /\ \E n \in InternalNodes \ {0} :
           /\ feat[n].has_cum
           /\ feat[n].cumulative_count > feat[n].count
           /\ feat[n].count > 0

\* C19: a store that process_taxdump returns without rebuilding holds the
\* complete nodes and names data of the reference dump, in every sequence of
\* runs, interrupted builds included
C19_SkipOnlyValidStore ==
    dpc = "skipped" =>
        /\ st_nodes = dump_nodes
        /\ st_names = dump_names

\* C19, second half: a run after a completed build changes nothing in the store
C19_RerunKeepsStore ==
    [][(dpc = "idle" /\ st_nodes = dump_nodes /\ st_names = dump_names
            /\ st_tables = {"nodes", "names"}) =>
           (dpc' = "skipped" /\ st_nodes' = st_nodes /\ st_names' = st_names)]_vars

\* C20: get_lineage terminates for every content of the nodes table and every
\* input taxid
C20_Terminates == <>(lpc = "done")

\* C20, as a property of finite runs: the loop's next step depends on taxid
\* alone, so it terminates only if it never comes back to a taxid it has
\* already appended
C20_NoTaxidTwice ==
    lpc = "loop" => lin_taxid \notin Range(lin_lineage)

AllEqual(s) == \A i, j \in DOMAIN s : s[i] = s[j]

\* C21 as stated: when all values are equal the loop examines at most 7
\* entries
C21_Original ==
    (AllEqual(sorted_values) /\ NonNegative(sorted_values)) => th_i <= MaxThresholds

\* C21, amended: when all values are equal the loop terminates after at most
\* one iteration per input entry: every step that stays in the loop examines
\* one more entry, the loop ends as soon as 7 thresholds are collected and
\* otherwise when the input is exhausted, which can take more than 7 iterations
C21_Amended ==
    [][(AllEqual(sorted_values) /\ NonNegative(sorted_values)) =>
           /\ th_i' <= Len(sorted_values)
           /\ tpc' = "loop" => (th_i' = th_i + 1 /\ Len(thresholds') < MaxThresholds)
           /\ tpc' = "done" => (th_i' = Len(sorted_values) \/ Len(thresholds') = MaxThresholds)]_vars

\* equal positive values, and the loop has examined more than 7 entries
C21_Witness ==
    /\ tpc = "done"
    /\ AllEqual(sorted_values)
    /\ sorted_values # <<>>
    /\ sorted_values[1] > 0
    /\ th_i > MaxThresholds
    /\ Len(thresholds) < MaxThresholds

\* C22: after create_tree the cumulative_count exported for the synthetic root
\* equals the sum of the counts of all valid input observations
C22_CountConserved ==
    pc = "done" =>
        Exported(0).cumulative_count = CountSum(valid_taxids, 1)

\* C22, restricted: the sum is conserved when no valid input taxid lies in the
\* common lineage and no observation is keyed 0
C22_ConservedWhenUnpruned ==
    (pc = "done" /\ 0 \notin Range(keys)
        /\ Range(valid_taxids) \cap common_lineage = {}) =>
        Exported(0).cumulative_count = CountSum(valid_taxids, 1)

\* C22, without observations keyed 0: the sum is still not conserved
C22_ConservedWithoutKeyZero ==
    (pc = "done" /\ 0 \notin Range(keys)) =>
        Exported(0).cumulative_count = CountSum(valid_taxids, 1)

====
